---- MODULE Spec2Model ----
(***************************************************************************)
(* Resumable chunked upload of audiobook-web: the client ChunkedUploader   *)
(* (packages/client/src/services/ChunkedUploader.ts) and the server        *)
(* UploadService / UploadController (services/uploadService.ts,            *)
(* controllers/uploadController.ts).                                       *)
(*                                                                         *)
(* Bytes: a file of size S is the byte sequence <<1, 2, ..., S>>, so that   *)
(* every byte carries its own offset and any reordering, loss or           *)
(* duplication of a byte range shows in the content.                       *)
(*                                                                         *)
(* Specifications:                                                         *)
(*   SpecPlan    createChunkMetadata over every file size and chunk size   *)
(*   SpecServer  the server under any callers, malformed requests included *)
(*   SpecReaper  the server with its clock and cleanupStaleUploads         *)
(*   SpecClient  the uploader under any answers of a server                *)
(*   SpecUpload  the uploader and the server together                      *)
(***************************************************************************)
EXTENDS Integers, Sequences, FiniteSets, Bags, TLC

\* ------------------------------------------------------------------ bounds
MaxFileSize == 12
MaxChunkSize == 5
MaxSessions == 1
MaxReqs == 3
MaxTotalChunks == 3
MaxOutputs == 2

\* the server under the reaper: sessions, requests at once, chunks of a session, half days
ReaperSessions == 2
ReaperReqs == 2
ReaperChunks == 1
ReaperTicks == 3

\* the client alone: maxParallel, maxRetries, calls of upload() and resume()
ClientParallel == 2
ClientRetries == 1
ClientRuns == 2

\* client and server together: maxParallel, maxRetries, requests at the server at once
UploadParallel == 1
UploadRetries == 1
UploadReqs == 2
ReuseRuns == 3
ReuseReqs == 2
ReuseParallel == 2
MaxBackoffRetries == 6

\* the dialog: the times React runs the mount effect of one mount
DialogEffects == 2

\* the example file: 2.5 MiB in chunks of 1 MiB, counted in half MiB
ExampleFileSize == 5
ExampleChunkSize == 2

\* ------------------------------------------------------------ arithmetic
Min(a, b) == IF a <= b THEN a ELSE b

\* Math.ceil(a / b) for integers a >= 0, b > 0
Ceil(a, b) == (a + b - 1) \div b

\* ------------------------------------------------------- client: planner
\* ChunkedUploader.constructor: this.totalChunks = Math.ceil(file.size / chunkSize)
ctorTotalChunks(size, chunkSize) == Ceil(size, chunkSize)

\* mutant of createChunkMetadata: the end of a chunk is not clamped to the file size
createChunkMetadataNoClamp(size, chunkSize, n) ==
  [i \in 1..n |->
     [index |-> i - 1, start |-> (i - 1) * chunkSize, end |-> (i - 1) * chunkSize + chunkSize,
      size |-> chunkSize, retries |-> 0]]

\* ChunkedUploader.createChunkMetadata: the descriptors of chunks 0..n-1
createChunkMetadata(size, chunkSize, n) ==
  [i \in 1..n |->
     LET start == (i - 1) * chunkSize
         end == Min(start + chunkSize, size)
     IN [index |-> i - 1, start |-> start, end |-> end, size |-> end - start, retries |-> 0]]

\* ChunkedUploader.getChunkSize
getChunkSize(size, chunkSize, chunkIndex) ==
  LET start == chunkIndex * chunkSize
      end == Min(start + chunkSize, size)
  IN end - start

\* File.slice(start, end) of the file <<1..size>>
fileSlice(size, start, end) ==
  LET s == Min(start, size)
      e == Min(end, size)
  IN IF e <= s THEN << >> ELSE [k \in 1..(e - s) |-> s + k]


\* --------------------------------------------------- JavaScript numbers
\* parseInt's NaN; every integer of the model is greater than it
NaN == 0 - 999

\* a < b and a >= b on JavaScript numbers: every comparison with NaN is false
jsLt(a, b) == a # NaN /\ b # NaN /\ a < b
jsGe(a, b) == a # NaN /\ b # NaN /\ a >= b

DigitChars == <<"0", "1", "2", "3", "4", "5", "6", "7", "8", "9">>
IsDigit(c) == \E d \in 1..10 : DigitChars[d] = c
digitVal(c) == (CHOOSE d \in 1..10 : DigitChars[d] = c) - 1

\* the value of the longest digit prefix of s from position k, with acc so far
RECURSIVE parseDigits(_, _, _)
parseDigits(s, k, acc) ==
  IF k > Len(s) \/ ~IsDigit(s[k]) THEN acc
  ELSE parseDigits(s, k + 1, acc * 10 + digitVal(s[k]))

\* parseInt(s, 10): optional sign, then the longest digit prefix; NaN without a digit
parseInt(s) ==
  LET k == IF Len(s) > 0 /\ s[1] \in {"-", "+"} THEN 2 ELSE 1
      neg == Len(s) > 0 /\ s[1] = "-"
  IN IF k > Len(s) \/ ~IsDigit(s[k]) THEN NaN
     ELSE IF neg THEN 0 - parseDigits(s, k, 0) ELSE parseDigits(s, k, 0)

\* Number.prototype.toString() of an integer
RECURSIVE natToString(_)
natToString(n) ==
  IF n < 10 THEN <<DigitChars[n + 1]>>
  ELSE natToString(n \div 10) \o <<DigitChars[(n % 10) + 1]>>

numToString(n) == IF n < 0 THEN <<"-">> \o natToString(0 - n) ELSE natToString(n)

\* ------------------------------------------------------------ file names
\* String.prototype.split(sep) on a sequence of characters
RECURSIVE split(_, _)
split(s, sep) ==
  IF \A k \in 1..Len(s) : s[k] # sep THEN <<s>>
  ELSE LET k == CHOOSE j \in 1..Len(s) : s[j] = sep /\ \A m \in 1..(j - 1) : s[m] # sep
       IN <<SubSeq(s, 1, k - 1)>> \o split(SubSeq(s, k + 1, Len(s)), sep)

\* Array.prototype.join(sep)
RECURSIVE join(_, _)
join(parts, sep) ==
  IF Len(parts) = 0 THEN << >>
  ELSE IF Len(parts) = 1 THEN parts[1]
  ELSE parts[1] \o <<sep>> \o join(Tail(parts), sep)

\* getFileTitle: the extension is the last dot-separated part, the title the rest joined by '_'
getFileTitle(fileName) ==
  LET parts == split(fileName, ".")
      last == parts[Len(parts)]
  IN [title |-> join(SubSeq(parts, 1, Len(parts) - 1), "_"),
      fileType |-> IF last = << >> THEN <<"t", "x", "t">> ELSE last]

\* ------------------------------------------------------- finite functions
put(f, k, v) == [x \in DOMAIN f \cup {k} |-> IF x = k THEN v ELSE f[x]]
drop(f, k) == [x \in DOMAIN f \ {k} |-> f[x]]

\* the elements of a finite set of integers in ascending order
RECURSIVE ascending(_)
ascending(S) ==
  IF S = {} THEN << >>
  ELSE LET m == CHOOSE x \in S : \A y \in S : x <= y
       IN <<m>> \o ascending(S \ {m})

\* ------------------------------------------------------- server constants
\* uploadService.ts: ONE_HOUR, ONE_DAY, in hours (the clock of the model counts hours)
ONE_HOUR == 1
ONE_DAY == 24 * ONE_HOUR

VARIABLES
  planSize,        \* planner run: file.size
  planChunk,       \* planner run: config.chunkSize
  planOut,         \* planner run: <<"none">> before, <<"plan", chunks>> after createChunkMetadata
  lim,             \* the bounds of the run (never changes)
  cfg,             \* the file and the config of the uploader (never changes)
  now,             \* Date.now() of the server, in hours
  nextId,          \* the next uuid uuidv4() returns
  sessions,        \* UploadService.sessions: uploadId -> session
  tempDirs,        \* disk: uploadId -> (chunk number -> staged bytes) for every existing tempDir
  outputs,         \* disk: the output files finalizeUpload created, in creation order
  books,           \* BookRepository.books
  reqs,            \* the bag of server requests that wait at an await point
  stagedHistory,   \* history: uploadId -> chunk number -> every byte string ever staged for it
  fetches,         \* the fetch() calls of the client: <<run, chunk, attempt>> -> request, response
  uploadedChunks,  \* ChunkedUploader.uploadedChunks
  uploadedBytes,   \* ChunkedUploader.uploadedBytes
  clientUploadId,  \* ChunkedUploader.uploadId, 0 for null
  abortController, \* ChunkedUploader.abortController: the number of the controller, 0 for null
  controllers,     \* the AbortControllers created so far: number -> aborted
  run,             \* the upload() or resume() call in progress, or the last one
  tasks,           \* the uploadChunkWithRetry calls: <<run, chunk>> -> task
  dialog           \* UploadProgressDialog: its status state, its refs, whether it is mounted

planVars == <<planSize, planChunk, planOut>>
serverVars == <<now, nextId, sessions, tempDirs, outputs, books, reqs, stagedHistory>>
uploaderVars == <<uploadedChunks, uploadedBytes, clientUploadId, abortController, controllers, run, tasks>>
fixedVars == <<planSize, planChunk, planOut, lim, cfg>>

vars == <<planSize, planChunk, planOut, lim, cfg, now, nextId, sessions, tempDirs, outputs, books,
          reqs, stagedHistory, fetches, uploadedChunks, uploadedBytes, clientUploadId,
          abortController, controllers, run, tasks, dialog>>

NoLim == [sessions |-> 0, reqs |-> 0, chunks |-> 0, outputs |-> 0, ticks |-> 0, runs |-> 0,
          names |-> {}, fields |-> {}]
NoCfg == [fileName |-> << >>, fileSize |-> 0, chunkSize |-> 1, maxParallel |-> 1, maxRetries |-> 0]
NoFetch == << >>
\* no UploadProgressDialog is rendered
NoDialog == [mounted |-> FALSE, status |-> "uploading", uploaderRef |-> 0,
             uploadStarted |-> FALSE, legacy |-> "none", settled |-> FALSE,
             effects |-> 0, calls |-> 0, cancelled |-> FALSE]
\* a call of upload() or resume(): its position, the chunksToUpload of its uploadAllChunks
\* and the start i of the batch it awaits, the error it rejected with and whether it told
\* onError. History: the chunk whose failure rejected it, whether cancel() was called on
\* it, the indices the status reported to it
NewRun(n, kind, pc) ==
  [n |-> n, kind |-> kind, pc |-> pc, queue |-> << >>, i |-> 1, error |-> [text |-> "", arg |-> << >>],
   onError |-> 0, book |-> << >>, failedChunk |-> 0 - 1, cancelled |-> FALSE, received |-> {}]
NoRun == NewRun(0, "none", "idle")
NoMsg == [text |-> "", arg |-> << >>]

PlanIdle == planSize = 0 /\ planChunk = 1 /\ planOut = <<"none">>

\* a server just constructed: no session, nothing on disk, no book
ServerStart ==
  /\ now = 0
  /\ nextId = 1
  /\ sessions = << >>
  /\ tempDirs = << >>
  /\ outputs = << >>
  /\ books = {}
  /\ reqs = EmptyBag
  /\ stagedHistory = << >>

\* an uploader just constructed
ClientStart ==
  /\ fetches = << >>
  /\ uploadedChunks = {}
  /\ uploadedBytes = 0
  /\ clientUploadId = 0
  /\ abortController = 0
  /\ controllers = << >>
  /\ run = NoRun
  /\ tasks = << >>

\* new ChunkedUploader(file, {chunkSize}) for any file size and chunk size
InitPlan ==
  /\ planSize \in 0..MaxFileSize
  /\ planChunk \in 1..MaxChunkSize
  /\ planOut = <<"none">>
  /\ lim = NoLim
  /\ cfg = NoCfg
  /\ ServerStart
  /\ ClientStart
  /\ dialog = NoDialog

\* uploadAllChunks line 146: const chunks = this.createChunkMetadata()
PlanChunks ==
  /\ planOut = <<"none">>
  /\ planOut' = <<"plan", createChunkMetadata(planSize, planChunk, ctorTotalChunks(planSize, planChunk))>>
  /\ UNCHANGED <<planSize, planChunk, lim, cfg, fetches, dialog>>
  /\ UNCHANGED serverVars
  /\ UNCHANGED uploaderVars

NextPlan == PlanChunks

SpecPlan == InitPlan /\ [][NextPlan]_vars

\* ------------------------------------------------------------ the server
\* a request of the server at an await point; f is the fetch it answers, NoFetch for a
\* caller outside the model
NewReq(kind, pc, id, f) ==
  [kind |-> kind, pc |-> pc, id |-> id, idx |-> 0, data |-> << >>, total |-> 0,
   name |-> << >>, i |-> 0, out |-> 0, t0 |-> 0, f |-> f]

Msg(text, arg) == [text |-> text, arg |-> arg]
Response(status, msg, body) == [status |-> status, msg |-> msg, body |-> body]
Proceed == Response(0, NoMsg, << >>)

InFlight == BagToSet(reqs)
HasFreeSlot == BagCardinality(reqs) < lim.reqs
Issue(q) == reqs (+) SetToBag({q})
Retire(r) == reqs (-) SetToBag({r})
Advance(r, q) == (reqs (-) SetToBag({r})) (+) SetToBag({q})

\* res.status(..).json(..): the response reaches the fetch that waits for it
\* (a response nobody waits for any more is dropped)
Reply(f, response) ==
  fetches' = IF f = NoFetch THEN fetches
             ELSE IF ~fetches[f].waiting THEN drop(fetches, f)
             ELSE [fetches EXCEPT ![f].stage = "response", ![f].response = response]

\* the request of fetch f has reached the server (any request when f = NoFetch)
Arrives(f, kind) ==
  f # NoFetch => /\ f \in DOMAIN fetches
           /\ fetches[f].stage = "request"
           /\ fetches[f].kind = kind

\* the server has taken up the request of fetch f
Taken(f) ==
  fetches' = IF f = NoFetch THEN fetches ELSE [fetches EXCEPT ![f].stage = "server"]

\* the bytes the planned client sends as chunk idx of its file
plannedBody(idx) ==
  IF idx = NaN THEN << >>
  ELSE fileSlice(cfg.fileSize, idx * cfg.chunkSize, idx * cfg.chunkSize + cfg.chunkSize)

\* BookService.checkExisting: a book of that title is in the repository
titleExists(title) == \E b \in books : b.title = title

\* UploadController.initializeUpload lines 76-84: the response of a request that is rejected
initializeCheck(fileName, fileSize, totalChunks) ==
  IF fileName = << >> \/ fileSize = 0 \/ totalChunks = 0
  THEN Response(400, Msg("Missing required fields: fileName, fileSize, totalChunks", << >>), << >>)
  ELSE IF titleExists(getFileTitle(fileName).title)
  THEN Response(500, Msg("Book with the same title already exists", << >>), << >>)
  ELSE Proceed

\* POST /upload/init: UploadController.initializeUpload and UploadService.initializeUpload.
\* The await of fs.mkdir is not a step of its own: until the response nobody else knows
\* the new uploadId.
InitCall(f, fileName, fileSize, totalChunks) ==
  /\ Arrives(f, "init")
  /\ LET check == initializeCheck(fileName, fileSize, totalChunks)
     IN IF check # Proceed
        THEN /\ Reply(f, check)
             /\ UNCHANGED <<nextId, tempDirs, sessions, stagedHistory>>
        ELSE /\ nextId <= lim.sessions
             /\ nextId' = nextId + 1
             /\ tempDirs' = put(tempDirs, nextId, << >>)
             /\ stagedHistory' = put(stagedHistory, nextId, << >>)
             /\ sessions' = put(sessions, nextId,
                                [fileName |-> fileName, totalChunks |-> totalChunks,
                                 uploadedChunks |-> {}, lastActivity |-> now])
             /\ Reply(f, Response(200, NoMsg, <<nextId>>))
  /\ UNCHANGED <<fixedVars, dialog, uploaderVars, now, outputs, books, reqs>>

\* mutant of saveChunkCheck: a chunk for an uploadId that is not in the store is accepted
saveChunkCheckNoLookup(uploadId, chunkIndex, hasChunk) ==
  IF uploadId = 0 \/ ~hasChunk
  THEN Response(400, Msg("Missing required fields: uploadId, chunkIndex, chunk", << >>), << >>)
  ELSE IF /\ uploadId \in DOMAIN sessions
          /\ (jsLt(chunkIndex, 0) \/ jsGe(chunkIndex, sessions[uploadId].totalChunks))
  THEN Response(500, Msg("Invalid chunk index", <<chunkIndex>>), << >>)
  ELSE Proceed

\* UploadController.uploadChunk lines 101-107 and saveChunk lines 70-79: the response of a
\* request that is rejected
saveChunkCheck(uploadId, chunkIndex, hasChunk) ==
  IF uploadId = 0 \/ ~hasChunk
  THEN Response(400, Msg("Missing required fields: uploadId, chunkIndex, chunk", << >>), << >>)
  ELSE IF uploadId \notin DOMAIN sessions
  THEN Response(500, Msg("Upload session not found", << >>), << >>)
  ELSE IF jsLt(chunkIndex, 0) \/ jsGe(chunkIndex, sessions[uploadId].totalChunks)
  THEN Response(500, Msg("Invalid chunk index", <<chunkIndex>>), << >>)
  ELSE Proceed

\* POST /upload/chunk: UploadController.uploadChunk, UploadService.saveChunk up to its await
\* of fs.writeFile. field is the chunkIndex form field, hasChunk whether a file part came.
ChunkCall(f, uploadId, field, hasChunk, chunkData) ==
  /\ Arrives(f, "chunk")
  /\ LET chunkIndex == parseInt(field)
         check == saveChunkCheck(uploadId, chunkIndex, hasChunk)
     IN IF check # Proceed
        THEN /\ Reply(f, check)
             /\ UNCHANGED reqs
        ELSE /\ HasFreeSlot
             /\ reqs' = Issue([NewReq("chunk", "write", uploadId, f) EXCEPT
                                 !.idx = chunkIndex, !.data = chunkData])
             /\ Taken(f)
  /\ UNCHANGED <<fixedVars, dialog, uploaderVars, now, nextId, sessions, tempDirs, outputs, books, stagedHistory>>

\* mutant of writeFile: the bytes are appended to the staged file instead of replacing it
writeFileAppend(dir, chunkIndex, chunkData) ==
  put(dir, chunkIndex, IF chunkIndex \in DOMAIN dir THEN dir[chunkIndex] \o chunkData ELSE chunkData)

\* fs.writeFile(path.join(tempDir, `chunk-${String(chunkIndex).padStart(5, '0')}`), chunkData):
\* the file named after the chunk number is created or replaced
writeFile(dir, chunkIndex, chunkData) == put(dir, chunkIndex, chunkData)

\* saveChunk line 83: the write reaches the disk; it fails when the directory is gone
ChunkWrite(r) ==
  /\ r \in InFlight
  /\ r.kind = "chunk" /\ r.pc = "write"
  /\ IF r.id \in DOMAIN tempDirs
     THEN /\ tempDirs' = [tempDirs EXCEPT ![r.id] = writeFile(@, r.idx, r.data)]
          /\ stagedHistory' = [stagedHistory EXCEPT ![r.id] =
                 put(@, r.idx, (IF r.idx \in DOMAIN @ THEN @[r.idx] ELSE {}) \cup {r.data})]
          /\ reqs' = Advance(r, [r EXCEPT !.pc = "written", !.data = << >>])
          /\ UNCHANGED fetches
     ELSE /\ Reply(r.f, Response(500, Msg("ENOENT", << >>), << >>))
          /\ reqs' = Retire(r)
          /\ UNCHANGED <<tempDirs, stagedHistory>>
  /\ UNCHANGED <<fixedVars, dialog, uploaderVars, now, nextId, sessions, outputs, books>>

\* mutant of markUploaded: the received set is replaced instead of extended
markUploadedOnly(session, chunkIndex, date) ==
  [session EXCEPT !.uploadedChunks = {chunkIndex}, !.lastActivity = date]

\* saveChunk lines 86-87: session.uploadedChunks.add(chunkIndex); session.lastActivity = new Date()
markUploaded(session, chunkIndex, date) ==
  [session EXCEPT !.uploadedChunks = @ \cup {chunkIndex}, !.lastActivity = date]

\* saveChunk after fs.writeFile: the session object it holds is updated (an object already
\* deleted from the map is updated too, which nothing can observe), 200 {success: true}
ChunkDone(r) ==
  /\ r \in InFlight
  /\ r.kind = "chunk" /\ r.pc = "written"
  /\ sessions' = IF r.id \in DOMAIN sessions
                 THEN [sessions EXCEPT ![r.id] = markUploaded(@, r.idx, now)]
                 ELSE sessions
  /\ Reply(r.f, Response(200, NoMsg, << >>))
  /\ reqs' = Retire(r)
  /\ UNCHANGED <<fixedVars, dialog, uploaderVars, now, nextId, tempDirs, outputs, books, stagedHistory>>

\* finalizeUpload lines 104-110: the first five absent indices, in ascending order
missingChunks(session) ==
  LET missing == ascending({i \in 0..(session.totalChunks - 1) : i \notin session.uploadedChunks})
  IN SubSeq(missing, 1, Min(5, Len(missing)))

\* mutant of allChunksUploaded: a session counts as complete from its first chunk on
allChunksUploadedAny(session) == Cardinality(session.uploadedChunks) >= 1

\* finalizeUpload line 103: session.uploadedChunks.size === session.totalChunks
allChunksUploaded(session) == Cardinality(session.uploadedChunks) = session.totalChunks

\* UploadController.finalizeUpload lines 124-129 and finalizeUpload lines 96-111: the response
\* of a request that is rejected
finalizeCheck(uploadId) ==
  IF uploadId = 0
  THEN Response(400, Msg("Missing uploadId", << >>), << >>)
  ELSE IF uploadId \notin DOMAIN sessions
  THEN Response(500, Msg("Upload session not found", << >>), << >>)
  ELSE IF ~allChunksUploaded(sessions[uploadId])
  THEN Response(500, Msg("Missing chunks", missingChunks(sessions[uploadId])), << >>)
  ELSE Proceed

\* POST /upload/finalize: UploadController.finalizeUpload, UploadService.finalizeUpload and
\* mergeChunks up to the await of the first fs.readFile: the checks, then
\* createWriteStream(outputPath) under a fresh uuid. The await of fs.mkdir(outputDir) is not
\* a step of its own: the output file it precedes is private to this request.
FinalizeCall(f, uploadId) ==
  /\ Arrives(f, "finalize")
  /\ LET check == finalizeCheck(uploadId)
     IN IF check # Proceed
        THEN /\ Reply(f, check)
             /\ UNCHANGED <<reqs, outputs>>
        ELSE /\ HasFreeSlot
             /\ Len(outputs) < lim.outputs
             /\ outputs' = Append(outputs, [id |-> uploadId, content |-> << >>, state |-> "open"])
             /\ reqs' = Issue([NewReq("finalize", "read", uploadId, f) EXCEPT
                                 !.total = sessions[uploadId].totalChunks,
                                 !.name = sessions[uploadId].fileName,
                                 !.out = Len(outputs) + 1])
             /\ Taken(f)
  /\ UNCHANGED <<fixedVars, dialog, uploaderVars, now, nextId, sessions, tempDirs, books, stagedHistory>>

\* mutant of mergeOrder: the chunks are merged from the last index down
mergeOrderDescending(i, total) == total - 1 - i

\* mergeChunks line 138: the i-th iteration of the loop reads chunk number i
mergeOrder(i, total) == i

\* mergeChunks lines 139-154 and finalizeUpload line 125: one fs.readFile returns. Its bytes
\* go to the write stream, and after the last chunk the stream ends, the output is complete
\* and cleanupSession looks the session up and awaits fs.rm (or returns when it is gone).
\* Or the read fails: the stream is closed, finalizeUpload rejects, the output file stays.
MergeRead(r) ==
  /\ r \in InFlight
  /\ r.kind = "finalize" /\ r.pc = "read"
  /\ LET k == mergeOrder(r.i, r.total)
         last == r.i + 1 >= r.total
     IN IF r.id \in DOMAIN tempDirs /\ k \in DOMAIN tempDirs[r.id]
        THEN /\ outputs' = [outputs EXCEPT ![r.out].content = @ \o tempDirs[r.id][k],
                                           ![r.out].state = IF last THEN "complete" ELSE @]
             /\ reqs' = Advance(r, [r EXCEPT !.i = @ + 1,
                                     !.pc = IF ~last THEN "read"
                                            ELSE IF r.id \in DOMAIN sessions THEN "rm" ELSE "book"])
             /\ UNCHANGED fetches
        ELSE /\ outputs' = [outputs EXCEPT ![r.out].state = "closed"]
             /\ Reply(r.f, Response(500, Msg("Failed to read chunk", <<k>>), << >>))
             /\ reqs' = Retire(r)
  /\ UNCHANGED <<fixedVars, dialog, uploaderVars, now, nextId, sessions, tempDirs, books, stagedHistory>>

\* cleanupSession line 197: fs.rm(tempDir, {recursive, force}) returns. It removed the
\* directory, or it threw, which cleanupSession catches and logs
CleanupRm(r, removed) ==
  /\ r \in InFlight
  /\ r.pc = "rm"
  /\ tempDirs' = IF removed THEN drop(tempDirs, r.id) ELSE tempDirs
  /\ reqs' = Advance(r, [r EXCEPT !.pc = "rmdone"])
  /\ UNCHANGED <<fixedVars, dialog, uploaderVars, now, nextId, sessions, outputs, books, fetches, stagedHistory>>

\* mutant of isStale: a session is stale from the age of ONE_DAY on
isStaleFromOneDay(session, t0) == t0 - session.lastActivity >= ONE_DAY

\* cleanupStaleUploads lines 214-216: age = now - lastActivity, stale when age > ONE_DAY
isStale(session, t0) == t0 - session.lastActivity > ONE_DAY

\* cleanupStaleUploads line 213: the stale sessions after cursor in the order of the map,
\* which is the order of the ids
staleAfter(cursor, t0) == {id \in DOMAIN sessions : id > cursor /\ isStale(sessions[id], t0)}

firstOf(S) == CHOOSE x \in S : \A y \in S : x <= y

\* cleanupSession line 203: this.sessions.delete(uploadId), and what its caller does next:
\* finalizeUpload returns to the controller, cancelUpload answers 200, cleanupStaleUploads
\* goes on to the next stale session
CleanupDone(r) ==
  /\ r \in InFlight
  /\ r.pc = "rmdone"
  /\ sessions' = drop(sessions, r.id)
  /\ CASE r.kind = "finalize" ->
            /\ reqs' = Advance(r, [r EXCEPT !.pc = "book"])
            /\ UNCHANGED fetches
       [] r.kind = "cancel" ->
            /\ reqs' = Retire(r)
            /\ Reply(r.f, Response(200, NoMsg, << >>))
       [] r.kind = "sweep" ->
            /\ reqs' = IF staleAfter(r.id, r.t0) = {} THEN Retire(r)
                       ELSE Advance(r, [r EXCEPT !.id = firstOf(staleAfter(r.id, r.t0)), !.pc = "rm"])
            /\ UNCHANGED fetches
  /\ UNCHANGED <<fixedVars, dialog, uploaderVars, now, nextId, tempDirs, outputs, books, stagedHistory>>

\* UploadController.finalizeUpload lines 134-139 and BookService.upload: the text is extracted
\* and the book added, 200 book; or the extraction fails, the artifact is deleted, 500
FinalizeBook(r, extracted) ==
  /\ r \in InFlight
  /\ r.kind = "finalize" /\ r.pc = "book"
  /\ IF extracted
     THEN /\ books' = books \cup {[title |-> getFileTitle(r.name).title, path |-> r.out]}
          /\ Reply(r.f, Response(200, NoMsg, <<r.out>>))
          /\ UNCHANGED outputs
     ELSE /\ outputs' = [outputs EXCEPT ![r.out].state = "deleted"]
          /\ Reply(r.f, Response(500, Msg("Failed to extract text from file", << >>), << >>))
          /\ UNCHANGED books
  /\ reqs' = Retire(r)
  /\ UNCHANGED <<fixedVars, dialog, uploaderVars, now, nextId, sessions, tempDirs, stagedHistory>>

\* mutant of getStatus: every index of the session is reported as received
getStatusAll(uploadId) ==
  IF uploadId \in DOMAIN sessions
  THEN <<0..(sessions[uploadId].totalChunks - 1), sessions[uploadId].totalChunks>>
  ELSE << >>

\* UploadService.getStatus: the received set and the chunk count of the session, or null
getStatus(uploadId) ==
  IF uploadId \in DOMAIN sessions
  THEN <<sessions[uploadId].uploadedChunks, sessions[uploadId].totalChunks>>
  ELSE << >>

\* res.json(status): JSON has no NaN, JSON.stringify writes null for it
Null == 0 - 998
jsonNumber(x) == IF x = NaN THEN Null ELSE x
jsonStatus(status) == <<{jsonNumber(x) : x \in status[1]}, status[2]>>

\* GET /upload/status/:uploadId: UploadController.getUploadStatus
StatusCall(f, uploadId) ==
  /\ Arrives(f, "status")
  /\ Reply(f, IF getStatus(uploadId) = << >>
              THEN Response(404, Msg("Upload session not found", << >>), << >>)
              ELSE Response(200, NoMsg, jsonStatus(getStatus(uploadId))))
  /\ UNCHANGED <<fixedVars, dialog, uploaderVars, serverVars>>

\* POST /upload/cancel/:uploadId: UploadController.cancelUpload, UploadService.cancelUpload up
\* to the await of fs.rm in cleanupSession; 200 at once when the session is gone
CancelCall(f, uploadId) ==
  /\ Arrives(f, "cancel")
  /\ IF uploadId \in DOMAIN sessions
     THEN /\ HasFreeSlot
          /\ reqs' = Issue(NewReq("cancel", "rm", uploadId, f))
          /\ Taken(f)
     ELSE /\ Reply(f, Response(200, NoMsg, << >>))
          /\ UNCHANGED reqs
  /\ UNCHANGED <<fixedVars, dialog, uploaderVars, now, nextId, sessions, tempDirs, outputs, books, stagedHistory>>

\* the setInterval callback of the constructor: cleanupStaleUploads takes now and walks the
\* sessions up to the first stale one, whose cleanupSession it awaits. One sweep at a time.
SweepStart ==
  /\ HasFreeSlot
  /\ \A q \in InFlight : q.kind # "sweep"
  /\ staleAfter(0, now) # {}
  /\ reqs' = Issue([NewReq("sweep", "rm", firstOf(staleAfter(0, now)), NoFetch) EXCEPT !.t0 = now])
  /\ UNCHANGED <<fixedVars, dialog, uploaderVars, now, nextId, sessions, tempDirs, outputs, books, fetches, stagedHistory>>

\* half a day passes
Tick ==
  /\ now + ONE_DAY \div 2 <= lim.ticks * (ONE_DAY \div 2)
  /\ now' = now + ONE_DAY \div 2
  /\ UNCHANGED <<fixedVars, dialog, uploaderVars, nextId, sessions, tempDirs, outputs, books, reqs, fetches, stagedHistory>>

\* ------------------------------------------------------------ the client
\* The uploader runs in one thread: a step is what it does between two awaits. A fetch
\* is <<run, chunk, attempt>>; the fetches of initializeUpload, getUploadStatus and
\* finalizeUpload take the place of the chunk.
InitFetch == 0 - 1
StatusFetch == 0 - 2
FinalizeFetch == 0 - 3

\* fetch rejects: the network failed (TypeError), the signal was aborted (AbortError)
NetworkError == Response(0 - 1, Msg("Failed to fetch", << >>), << >>)
AbortError == Response(0 - 2, Msg("The operation was aborted.", << >>), << >>)

\* response.ok
ok(response) == response.status >= 200 /\ response.status <= 299

\* the Error a failed fetch throws: the rejection of fetch, or new Error(json.message ||
\* fallback), where an empty or absent message is falsy
errorOf(response, fallback) ==
  IF response.status < 0 THEN response.msg
  ELSE IF response.msg.text # "" THEN response.msg
  ELSE fallback

NoArgs == [uploadId |-> 0, field |-> << >>, data |-> << >>, fileName |-> << >>,
           fileSize |-> 0, totalChunks |-> 0]
NewFetch(kind, signal, args) ==
  [kind |-> kind, stage |-> "request", signal |-> signal, waiting |-> TRUE, args |-> args,
   response |-> Proceed]

totalChunks == ctorTotalChunks(cfg.fileSize, cfg.chunkSize)
plan == createChunkMetadata(cfg.fileSize, cfg.chunkSize, totalChunks)

\* initializeUpload lines 119-131
initFetch(signal) ==
  NewFetch("init", signal, [NoArgs EXCEPT !.fileName = cfg.fileName, !.fileSize = cfg.fileSize,
                                           !.totalChunks = totalChunks])
\* getUploadStatus line 237: no signal
statusFetch(id) == NewFetch("status", 0, [NoArgs EXCEPT !.uploadId = id])
\* finalizeUpload lines 215-222
finalizeFetch(signal, id) == NewFetch("finalize", signal, [NoArgs EXCEPT !.uploadId = id])
\* uploadChunk lines 183-195
chunkFetch(chunk, signal, id) ==
  NewFetch("chunk", signal,
           [NoArgs EXCEPT !.uploadId = id, !.field = numToString(chunk.index),
                          !.data = fileSlice(cfg.fileSize, chunk.start, chunk.end),
                          !.totalChunks = totalChunks])

\* uploadAllChunks line 147: the chunks of the plan that are not in uploadedChunks
chunksToUpload(uploaded) == SelectSeq(plan, LAMBDA chunk : chunk.index \notin uploaded)

\* mutant of batchOf: a batch takes one chunk more than maxParallel
batchOfWide(queue, i) == SubSeq(queue, i, Min(i + cfg.maxParallel, Len(queue)))

\* uploadAllChunks line 151: the batch that starts at i
batchOf(queue, i) == SubSeq(queue, i, Min(i + cfg.maxParallel - 1, Len(queue)))
indicesOf(batch) == {batch[j].index : j \in DOMAIN batch}
chunkAt(batch, index) == batch[CHOOSE j \in DOMAIN batch : batch[j].index = index]

\* a call of uploadChunkWithRetry in its first uploadChunk. History: sends, the requests
\* it has sent; lastError, the error it caught last
NewTask(chunk) ==
  [chunk |-> chunk, pc |-> "fetch", sends |-> 1, delay |-> 0, lastError |-> NoMsg, error |-> NoMsg]

\* uploadAllChunks lines 150-154 and upload line 71, resume line 110: the loop at batch i
\* starts its uploadChunkWithRetry calls, or is over and finalizeUpload sends its request
proceed(R, T, F, signal, id) ==
  IF R.i > Len(R.queue)
  THEN [run |-> [R EXCEPT !.pc = "finalize"],
        tasks |-> T,
        fetches |-> put(F, <<R.n, FinalizeFetch, 0>>, finalizeFetch(signal, id))]
  ELSE LET batch == batchOf(R.queue, R.i)
           started == {<<R.n, x>> : x \in indicesOf(batch)}
           sent == {<<R.n, x, 0>> : x \in indicesOf(batch)}
       IN [run |-> [R EXCEPT !.pc = "chunks"],
           tasks |-> [k \in DOMAIN T \cup started |->
                        IF k \in started THEN NewTask(chunkAt(batch, k[2])) ELSE T[k]],
           fetches |-> [f \in DOMAIN F \cup sent |->
                          IF f \in sent THEN chunkFetch(chunkAt(batch, f[2]), signal, id) ELSE F[f]]]

\* upload lines 72-75, resume lines 111-114: catch, onError, throw
rejected(R, error, told) ==
  [R EXCEPT !.pc = "rejected", !.error = error, !.onError = IF told THEN @ + 1 ELSE @]

RunOver == run.pc \in {"idle", "resolved", "rejected"}

\* the calls of uploadChunkWithRetry that have not returned or thrown
pending(T) == [k \in {j \in DOMAIN T : T[j].pc \in {"fetch", "sleep"}} |-> T[k]]

\* upload() up to the await of initializeUpload
UploadMethod ==
  /\ RunOver
  /\ run.n < lim.runs
  /\ controllers' = Append(controllers, FALSE)
  /\ abortController' = Len(controllers) + 1
  /\ uploadedBytes' = 0
  /\ run' = NewRun(run.n + 1, "upload", "init")
  /\ fetches' = put(fetches, <<run.n + 1, InitFetch, 0>>, initFetch(abortController'))
  /\ tasks' = pending(tasks)
  /\ UNCHANGED <<fixedVars, serverVars, uploadedChunks, clientUploadId>>

\* upload() called on an uploader that no dialog owns
Upload == UploadMethod /\ UNCHANGED dialog

\* resume(uploadId) up to the await of getUploadStatus
Resume(id) ==
  /\ RunOver
  /\ run.n < lim.runs
  /\ clientUploadId' = id
  /\ controllers' = Append(controllers, FALSE)
  /\ abortController' = Len(controllers) + 1
  /\ run' = NewRun(run.n + 1, "resume", "status")
  /\ fetches' = put(fetches, <<run.n + 1, StatusFetch, 0>>, statusFetch(id))
  /\ tasks' = pending(tasks)
  /\ UNCHANGED <<fixedVars, dialog, serverVars, uploadedChunks, uploadedBytes>>

\* initializeUpload lines 133-139 and upload lines 65-71: the response of init is there
InitSettles(f, response) ==
  /\ f = <<run.n, InitFetch, 0>>
  /\ run.pc = "init"
  /\ IF ok(response)
     THEN LET next == proceed([run EXCEPT !.queue = chunksToUpload(uploadedChunks)], tasks,
                              drop(fetches, f), abortController, response.body[1])
          IN /\ clientUploadId' = response.body[1]
             /\ run' = next.run
             /\ tasks' = next.tasks
             /\ fetches' = next.fetches
     ELSE /\ run' = rejected(run, errorOf(response, Msg("Failed to initialize upload", << >>)), TRUE)
          /\ fetches' = drop(fetches, f)
          /\ UNCHANGED <<clientUploadId, tasks>>
  /\ UNCHANGED <<fixedVars, dialog, serverVars, uploadedChunks, uploadedBytes, abortController, controllers>>

\* getChunkSize(idx) of an index of the status: null * chunkSize is 0
toNumber(x) == IF x = Null THEN 0 ELSE x
RECURSIVE sumChunkSizes(_)
sumChunkSizes(S) ==
  IF S = {} THEN 0
  ELSE LET x == CHOOSE y \in S : TRUE
       IN getChunkSize(cfg.fileSize, cfg.chunkSize, toNumber(x)) + sumChunkSizes(S \ {x})

\* getUploadStatus lines 239-244 and resume lines 98-110: the response of status is there
StatusSettles(f, response) ==
  /\ f = <<run.n, StatusFetch, 0>>
  /\ run.pc = "status"
  /\ IF ok(response)
     THEN LET received == response.body[1]
              next == proceed([run EXCEPT !.queue = chunksToUpload(uploadedChunks \cup received),
                                          !.received = received],
                              tasks, drop(fetches, f), abortController, clientUploadId)
          IN /\ uploadedChunks' = uploadedChunks \cup received
             /\ uploadedBytes' = uploadedBytes + sumChunkSizes(received)
             /\ run' = next.run
             /\ tasks' = next.tasks
             /\ fetches' = next.fetches
     ELSE /\ run' = rejected(run, errorOf(response, NoMsg), TRUE)
          /\ fetches' = drop(fetches, f)
          /\ UNCHANGED <<uploadedChunks, uploadedBytes, tasks>>
  /\ UNCHANGED <<fixedVars, dialog, serverVars, clientUploadId, abortController, controllers>>

\* finalizeUpload lines 224-230: the response of finalize is there. upload() returns the
\* promise of finalizeUpload without awaiting it, so its catch does not see the rejection;
\* resume() awaits it
FinalizeSettles(f, response) ==
  /\ f = <<run.n, FinalizeFetch, 0>>
  /\ run.pc = "finalize"
  /\ run' = IF ok(response) THEN [run EXCEPT !.pc = "resolved", !.book = response.body]
            ELSE rejected(run, errorOf(response, NoMsg), run.kind = "resume")
  /\ fetches' = drop(fetches, f)
  /\ UNCHANGED <<fixedVars, dialog, serverVars, uploadedChunks, uploadedBytes, clientUploadId,
                 abortController, controllers, tasks>>

\* mutant of exhausted: one more retry is allowed before the chunk is given up
exhaustedLate(retries) == retries > cfg.maxRetries + 1

\* uploadChunkWithRetry line 167: chunk.retries > maxRetries
exhausted(retries) == retries > cfg.maxRetries

\* mutant of backoff: the delay doubles without a cap
backoffUncapped(retries) == 1000 * 2 ^ (retries - 1)

\* uploadChunkWithRetry line 172: Math.min(1000 * Math.pow(2, retries - 1), 10000)
backoff(retries) == Min(1000 * 2 ^ (retries - 1), 10000)

\* uploadChunkWithRetry line 168: new Error(error.message || `Failed to upload chunk
\* ${chunk.index} after ${maxRetries} retries`)
thrown(error, index) ==
  IF error.text # "" THEN Msg(error.text, error.arg)
  ELSE Msg("Failed to upload chunk after retries", <<index, cfg.maxRetries>>)

\* uploadChunkWithRetry lines 165-173: the catch block, up to the throw or the sleep
caught(task, error) ==
  LET retries == task.chunk.retries + 1
      counted == [task EXCEPT !.chunk.retries = retries, !.lastError = error]
  IN IF exhausted(retries)
     THEN [counted EXCEPT !.pc = "failed", !.error = thrown(error, task.chunk.index)]
     ELSE [counted EXCEPT !.pc = "sleep", !.delay = backoff(retries)]

\* Promise.all of uploadAllChunks line 153: every call of the batch has returned
batchResolved(R, T) ==
  \A x \in indicesOf(batchOf(R.queue, R.i)) : T[<<R.n, x>>].pc \in {"done", "returned"}

\* a call of uploadChunkWithRetry has returned, leaving tasks T and fetches F: the run
\* that awaits its batch goes on when the batch is complete
resolved(k, T, F) ==
  IF run.n = k[1] /\ run.pc = "chunks" /\ batchResolved(run, T)
  THEN proceed([run EXCEPT !.i = @ + cfg.maxParallel], T, F, abortController, clientUploadId)
  ELSE [run |-> run, tasks |-> T, fetches |-> F]

\* uploadChunk lines 197-208 and the catch of uploadChunkWithRetry: the response of a
\* chunk request is there
ChunkSettles(f, response) ==
  LET k == <<f[1], f[2]>> IN
  /\ f[2] >= 0
  /\ k \in DOMAIN tasks
  /\ tasks[k].pc = "fetch"
  /\ f[3] = tasks[k].chunk.retries
  /\ IF ok(response)
     THEN LET next == resolved(k, [tasks EXCEPT ![k].pc = "done"], drop(fetches, f))
          IN /\ uploadedChunks' = uploadedChunks \cup {tasks[k].chunk.index}
             /\ uploadedBytes' = uploadedBytes + tasks[k].chunk.size
             /\ run' = next.run
             /\ tasks' = next.tasks
             /\ fetches' = next.fetches
     ELSE LET task == caught(tasks[k], errorOf(response, Msg("Chunk upload failed", << >>)))
          IN /\ tasks' = [tasks EXCEPT ![k] = task]
             /\ fetches' = drop(fetches, f)
             /\ run' = IF task.pc = "failed" /\ run.n = k[1] /\ run.pc = "chunks"
                       THEN [rejected(run, task.error, TRUE) EXCEPT !.failedChunk = k[2]]
                       ELSE run
             /\ UNCHANGED <<uploadedChunks, uploadedBytes>>
  /\ UNCHANGED <<fixedVars, dialog, serverVars, clientUploadId, abortController, controllers>>

\* uploadChunkWithRetry lines 173 and 161: the sleep is over, the loop tests
\* chunk.retries <= maxRetries and calls uploadChunk again, with the signal and the
\* uploadId the uploader has now
Wake(k) ==
  /\ k \in DOMAIN tasks
  /\ tasks[k].pc = "sleep"
  /\ IF tasks[k].chunk.retries <= cfg.maxRetries
     THEN /\ tasks' = [tasks EXCEPT ![k].pc = "fetch", ![k].sends = @ + 1]
          /\ fetches' = put(fetches, <<k[1], k[2], tasks[k].chunk.retries>>,
                            chunkFetch(tasks[k].chunk, abortController, clientUploadId))
          /\ UNCHANGED run
     ELSE LET next == resolved(k, [tasks EXCEPT ![k].pc = "returned"], fetches)
          IN /\ run' = next.run
             /\ tasks' = next.tasks
             /\ fetches' = next.fetches
  /\ UNCHANGED <<fixedVars, dialog, serverVars, uploadedChunks, uploadedBytes, clientUploadId,
                 abortController, controllers>>

\* cancel(): abort() rejects every fetch that was given the signal and is still awaited,
\* and their catch blocks run before anything else does; then abortController = null.
\* A request that is with the server is not called back; one that is on its way arrives
\* or not.
CancelMethod(arrives) ==
  LET hit == {f \in DOMAIN fetches : fetches[f].signal = abortController /\ fetches[f].waiting}
      hitTasks == {<<f[1], f[2]>> : f \in {g \in hit : g[2] >= 0}}
      T == [k \in DOMAIN tasks |->
              IF k \in hitTasks THEN caught(tasks[k], AbortError.msg) ELSE tasks[k]]
      failed == {k \in hitTasks : k[1] = run.n /\ T[k].pc = "failed"}
      first == CHOOSE k \in failed : \A j \in failed : k[2] <= j[2]
  IN
  /\ abortController # 0
  /\ controllers' = [controllers EXCEPT ![abortController] = TRUE]
  /\ abortController' = 0
  /\ tasks' = T
  /\ fetches' = [f \in {g \in DOMAIN fetches :
                          g \in hit => \/ fetches[g].stage = "server"
                                       \/ fetches[g].stage = "request" /\ arrives} |->
                   IF f \in hit THEN [fetches[f] EXCEPT !.waiting = FALSE] ELSE fetches[f]]
  /\ run' = IF run.pc = "init" /\ <<run.n, InitFetch, 0>> \in hit
            THEN rejected(run, AbortError.msg, TRUE)
            ELSE IF run.pc = "finalize" /\ <<run.n, FinalizeFetch, 0>> \in hit
            THEN rejected(run, AbortError.msg, run.kind = "resume")
            ELSE IF run.pc = "chunks" /\ failed # {}
            THEN [rejected(run, T[first].error, TRUE) EXCEPT
                    !.failedChunk = first[2], !.cancelled = TRUE]
            ELSE IF run.pc = "chunks" /\ \E k \in hitTasks : k[1] = run.n
            THEN [run EXCEPT !.cancelled = TRUE]
            ELSE run
  /\ UNCHANGED <<fixedVars, serverVars, uploadedChunks, uploadedBytes, clientUploadId>>

\* cancel() called on an uploader that no dialog owns
Cancel(arrives) == CancelMethod(arrives) /\ UNCHANGED dialog

\* ----------------------------------------------- client under any server
\* what a server can answer to a request, and the failure of the network
ChunkOutcomes ==
  {Response(200, NoMsg, << >>),
   Response(500, Msg("Upload session not found", << >>), << >>),
   NetworkError}
InitOutcomes ==
  {Response(200, NoMsg, <<1>>),
   Response(500, Msg("Book with the same title already exists", << >>), << >>),
   NetworkError}
StatusOutcomes ==
  {Response(200, NoMsg, <<received, totalChunks>>) : received \in SUBSET (0..(totalChunks - 1))}
    \cup {Response(404, Msg("Upload session not found", << >>), << >>)}
FinalizeOutcomes ==
  {Response(200, NoMsg, <<1>>),
   Response(500, Msg("Missing chunks", <<0>>), << >>),
   NetworkError}

Asked(f) == f \in DOMAIN fetches /\ fetches[f].stage = "request" /\ fetches[f].waiting

InitAnswered == \E f \in DOMAIN fetches, response \in InitOutcomes : Asked(f) /\ InitSettles(f, response)
StatusAnswered == \E f \in DOMAIN fetches, response \in StatusOutcomes : Asked(f) /\ StatusSettles(f, response)
ChunkAnswered == \E f \in DOMAIN fetches, response \in ChunkOutcomes : Asked(f) /\ ChunkSettles(f, response)
FinalizeAnswered == \E f \in DOMAIN fetches, response \in FinalizeOutcomes : Asked(f) /\ FinalizeSettles(f, response)
SleepOver == \E k \in DOMAIN tasks : Wake(k)
CancelCalled == Cancel(FALSE)
ResumeKnown == Resume(1)

InitClient ==
  /\ PlanIdle
  /\ lim = [NoLim EXCEPT !.runs = ClientRuns]
  /\ cfg = [fileName |-> <<"a", ".", "t", "x", "t">>, fileSize |-> ExampleFileSize,
            chunkSize |-> ExampleChunkSize, maxParallel |-> ClientParallel,
            maxRetries |-> ClientRetries]
  /\ ServerStart
  /\ ClientStart
  /\ dialog = NoDialog

NextClient ==
  \/ Upload
  \/ ResumeKnown
  \/ InitAnswered
  \/ StatusAnswered
  \/ ChunkAnswered
  \/ FinalizeAnswered
  \/ SleepOver
  \/ CancelCalled

SpecClient == InitClient /\ [][NextClient]_vars

\* every request of the uploader is answered or fails in the end, and every setTimeout of
\* a retry fires
SpecClientFair ==
  /\ SpecClient
  /\ WF_vars(InitAnswered) /\ WF_vars(StatusAnswered) /\ WF_vars(ChunkAnswered)
  /\ WF_vars(FinalizeAnswered) /\ WF_vars(SleepOver)

\* the uploader of a file of one chunk, in one run, for every maxRetries up to
\* MaxBackoffRetries
InitBackoff ==
  /\ PlanIdle
  /\ lim = [NoLim EXCEPT !.runs = 1]
  /\ \E maxRetries \in 0..MaxBackoffRetries :
       cfg = [fileName |-> <<"a", ".", "t", "x", "t">>, fileSize |-> ExampleChunkSize,
              chunkSize |-> ExampleChunkSize, maxParallel |-> 1, maxRetries |-> maxRetries]
  /\ ServerStart
  /\ ClientStart
  /\ dialog = NoDialog

SpecBackoff == InitBackoff /\ [][NextClient]_vars

\* ------------------------------------------------- UploadProgressDialog
\* The dialog of one mount. status is the React state, uploaderRef (0 for null) and
\* uploadStarted are the refs; legacy is the request of api.books.upload that smartUpload
\* makes for a file of at most UPLOAD_CHUNK_SIZE, which is the chunkSize of the default
\* config; settled says that the await of smartUpload has returned or thrown. History:
\* effects counts the runs of the mount effect, calls those of smartUpload, cancelled says
\* that handleCancel ran.

\* useEffect, startUpload up to the await of smartUpload: the latch, then uploadChunked
\* makes the uploader and calls upload() on it, or the file goes the legacy way. Nothing
\* assigns uploaderRef.current.
DialogEffect ==
  /\ dialog.mounted
  /\ dialog.effects < DialogEffects
  /\ IF dialog.uploadStarted
     THEN /\ dialog' = [dialog EXCEPT !.effects = @ + 1]
          /\ UNCHANGED <<fixedVars, serverVars, fetches, uploaderVars>>
     ELSE IF cfg.fileSize > cfg.chunkSize
     THEN /\ UploadMethod
          /\ dialog' = [dialog EXCEPT !.uploadStarted = TRUE, !.effects = @ + 1, !.calls = @ + 1]
     ELSE /\ dialog' = [dialog EXCEPT !.uploadStarted = TRUE, !.effects = @ + 1, !.calls = @ + 1,
                                      !.legacy = "pending"]
          /\ UNCHANGED <<fixedVars, serverVars, fetches, uploaderVars>>

\* handleCancel, the handler of both cancel buttons, which are rendered while status is
\* 'uploading'; onCancel is the parent's and may unmount the dialog
DialogCancel ==
  /\ dialog.mounted
  /\ dialog.status = "uploading"
  /\ IF dialog.uploaderRef # 0 /\ abortController # 0
     THEN \E arrives \in BOOLEAN : CancelMethod(arrives)
     ELSE UNCHANGED <<fixedVars, serverVars, fetches, uploaderVars>>
  /\ \E unmounts \in BOOLEAN :
       dialog' = [dialog EXCEPT !.status = "cancelled", !.cancelled = TRUE,
                                !.mounted = ~unmounts]

\* startUpload after the await of smartUpload: setStatus('completed'), or the catch with
\* setStatus('error'); a dialog that is not mounted any more keeps no state
DialogSettles ==
  /\ dialog.calls = 1
  /\ ~dialog.settled
  /\ \E completed \in BOOLEAN :
       /\ IF dialog.legacy = "pending"
          THEN TRUE
          ELSE /\ run.pc \in {"resolved", "rejected"}
               /\ completed = (run.pc = "resolved")
       /\ dialog' = [dialog EXCEPT
                       !.settled = TRUE,
                       !.legacy = IF @ = "pending" THEN "done" ELSE @,
                       !.status = IF ~dialog.mounted THEN @
                                  ELSE IF completed THEN "completed" ELSE "error"]
  /\ UNCHANGED <<fixedVars, serverVars, fetches, uploaderVars>>

\* a dialog just mounted, with a file of one chunk or with the example file
InitDialog ==
  /\ PlanIdle
  /\ lim = [NoLim EXCEPT !.runs = 1]
  /\ \E fileSize \in {ExampleChunkSize, ExampleFileSize} :
       cfg = [fileName |-> <<"a", ".", "t", "x", "t">>, fileSize |-> fileSize,
              chunkSize |-> ExampleChunkSize, maxParallel |-> ClientParallel,
              maxRetries |-> ClientRetries]
  /\ ServerStart
  /\ ClientStart
  /\ dialog = [NoDialog EXCEPT !.mounted = TRUE]

NextDialog ==
  \/ DialogEffect
  \/ DialogCancel
  \/ DialogSettles
  \/ InitAnswered
  \/ ChunkAnswered
  \/ FinalizeAnswered
  \/ SleepOver

SpecDialog == InitDialog /\ [][NextDialog]_vars

\* ----------------------------------------------- server under any callers
\* the upload ids a caller can name: none (0), every id handed out so far, and one that
\* was never handed out
UploadIds == (0..(nextId - 1)) \cup {lim.sessions + 1}

\* the chunkIndex form fields of the decimal numbers -1..chunks
NumberFields(chunks) == {numToString(k) : k \in (0 - 1)..chunks}

\* a chunkIndex form field that is no number
NoNumberField == <<"x">>

\* the body a caller sends with a chunk number: the bytes of that chunk of the file
ChunkBodies(field) == {plannedBody(parseInt(field))}

InitServer ==
  /\ PlanIdle
  /\ lim = [sessions |-> MaxSessions, reqs |-> MaxReqs, chunks |-> MaxTotalChunks,
            outputs |-> MaxOutputs, ticks |-> 0, runs |-> 0,
            names |-> {<<"a", ".", "t", "x", "t">>},
            fields |-> NumberFields(MaxTotalChunks) \cup {NoNumberField}]
  /\ cfg = [fileName |-> <<"a", ".", "t", "x", "t">>, fileSize |-> ExampleFileSize,
            chunkSize |-> ExampleChunkSize, maxParallel |-> 1, maxRetries |-> 0]
  /\ ServerStart
  /\ ClientStart
  /\ dialog = NoDialog

AnyInit ==
  \E fileName \in lim.names \cup {<< >>}, fileSize \in {0, cfg.fileSize}, total \in 0..lim.chunks :
    InitCall(NoFetch, fileName, fileSize, total)
AnyChunk ==
  \E id \in UploadIds, field \in lim.fields, hasChunk \in BOOLEAN :
    \E chunkData \in ChunkBodies(field) : ChunkCall(NoFetch, id, field, hasChunk, chunkData)
AnyFinalize == \E id \in UploadIds : FinalizeCall(NoFetch, id)
AnyStatus == \E id \in UploadIds \ {0} : StatusCall(NoFetch, id)
AnyCancel == \E id \in UploadIds \ {0} : CancelCall(NoFetch, id)
WriteLands == \E r \in InFlight : ChunkWrite(r)
ChunkReturns == \E r \in InFlight : ChunkDone(r)
ReadReturns == \E r \in InFlight : MergeRead(r)
RmReturns == \E r \in InFlight, removed \in BOOLEAN : CleanupRm(r, removed)
SessionDeleted == \E r \in InFlight : CleanupDone(r)
BookCreated == \E r \in InFlight, extracted \in BOOLEAN : FinalizeBook(r, extracted)

NextServer ==
  \/ AnyInit
  \/ AnyChunk
  \/ WriteLands
  \/ ChunkReturns
  \/ AnyFinalize
  \/ ReadReturns
  \/ RmReturns
  \/ SessionDeleted
  \/ BookCreated
  \/ AnyStatus
  \/ AnyCancel

SpecServer == InitServer /\ [][NextServer]_vars

\* ----------------------------------------------- server with its reaper
\* The callers send well-formed requests; time passes by half days and the hourly timer
\* of the constructor runs cleanupStaleUploads at any moment.
InitReaper ==
  /\ PlanIdle
  /\ lim = [sessions |-> ReaperSessions, reqs |-> ReaperReqs, chunks |-> ReaperChunks,
            outputs |-> ReaperSessions, ticks |-> ReaperTicks, runs |-> 0,
            names |-> {<<"a", ".", "t", "x", "t">>},
            fields |-> NumberFields(ReaperChunks)]
  /\ cfg = [fileName |-> <<"a", ".", "t", "x", "t">>, fileSize |-> ExampleChunkSize,
            chunkSize |-> ExampleChunkSize, maxParallel |-> 1, maxRetries |-> 0]
  /\ ServerStart
  /\ ClientStart
  /\ dialog = NoDialog

NextReaper ==
  \/ AnyInit
  \/ AnyChunk
  \/ WriteLands
  \/ ChunkReturns
  \/ AnyFinalize
  \/ ReadReturns
  \/ RmReturns
  \/ SessionDeleted
  \/ BookCreated
  \/ AnyCancel
  \/ SweepStart
  \/ Tick

SpecReaper == InitReaper /\ [][NextReaper]_vars

\* ----------------------------------------------- client and server
\* One uploader and the server: the requests of the client's fetches are the requests the
\* server handles. The network can lose a request, the user can call cancel(), and after
\* a failed run the user calls upload() again or resume() with the uploadId it has.
Awaited(f) == f \in DOMAIN fetches /\ fetches[f].stage = "response" /\ fetches[f].waiting

InitResponse == \E f \in DOMAIN fetches : Awaited(f) /\ InitSettles(f, fetches[f].response)
StatusResponse == \E f \in DOMAIN fetches : Awaited(f) /\ StatusSettles(f, fetches[f].response)
ChunkResponse == \E f \in DOMAIN fetches : Awaited(f) /\ ChunkSettles(f, fetches[f].response)
FinalizeResponse == \E f \in DOMAIN fetches : Awaited(f) /\ FinalizeSettles(f, fetches[f].response)
CancelAnytime == \E arrives \in BOOLEAN : Cancel(arrives)
UploadOnce == run.pc = "idle" /\ Upload
ResumeOwn == run.pc = "rejected" /\ clientUploadId # 0 /\ Resume(clientUploadId)

\* the request of a fetch is lost: fetch rejects with a TypeError
NetFails ==
  \E f \in DOMAIN fetches :
    /\ Asked(f)
    /\ fetches' = [fetches EXCEPT ![f].stage = "response", ![f].response = NetworkError]
    /\ UNCHANGED <<fixedVars, dialog, serverVars, uploaderVars>>

ServesInit ==
  \E f \in DOMAIN fetches :
    InitCall(f, fetches[f].args.fileName, fetches[f].args.fileSize, fetches[f].args.totalChunks)
ServesChunk ==
  \E f \in DOMAIN fetches :
    ChunkCall(f, fetches[f].args.uploadId, fetches[f].args.field, TRUE, fetches[f].args.data)
ServesFinalize == \E f \in DOMAIN fetches : FinalizeCall(f, fetches[f].args.uploadId)
ServesStatus == \E f \in DOMAIN fetches : StatusCall(f, fetches[f].args.uploadId)

InitUpload ==
  /\ PlanIdle
  /\ lim = [NoLim EXCEPT !.sessions = MaxSessions, !.reqs = UploadReqs, !.outputs = MaxSessions,
                         !.runs = ClientRuns]
  /\ cfg = [fileName |-> <<"a", ".", "t", "x", "t">>, fileSize |-> ExampleFileSize,
            chunkSize |-> ExampleChunkSize, maxParallel |-> UploadParallel,
            maxRetries |-> UploadRetries]
  /\ ServerStart
  /\ ClientStart
  /\ dialog = NoDialog

NextUpload ==
  \/ UploadOnce
  \/ ResumeOwn
  \/ InitResponse
  \/ StatusResponse
  \/ ChunkResponse
  \/ FinalizeResponse
  \/ SleepOver
  \/ CancelAnytime
  \/ NetFails
  \/ ServesInit
  \/ ServesChunk
  \/ WriteLands
  \/ ChunkReturns
  \/ ServesFinalize
  \/ ReadReturns
  \/ RmReturns
  \/ SessionDeleted
  \/ BookCreated
  \/ ServesStatus

SpecUpload == InitUpload /\ [][NextUpload]_vars

\* ----------------------------------------------- one uploader used again
\* The uploader instance and the server, where the user calls upload() or resume() again
\* whenever the call before has ended. Chunks are not retried and nothing is cancelled; a
\* request can be lost. The file is the example file or an empty file.
UploadAgain == Upload

InitReuse ==
  /\ PlanIdle
  /\ lim = [NoLim EXCEPT !.sessions = ReuseRuns, !.reqs = ReuseReqs, !.outputs = ReuseRuns,
                         !.runs = ReuseRuns]
  /\ \E fileSize \in {0, ExampleFileSize} :
       cfg = [fileName |-> <<"a", ".", "t", "x", "t">>, fileSize |-> fileSize,
              chunkSize |-> ExampleChunkSize, maxParallel |-> ReuseParallel, maxRetries |-> 0]
  /\ ServerStart
  /\ ClientStart
  /\ dialog = NoDialog

NextReuse ==
  \/ UploadAgain
  \/ ResumeOwn
  \/ InitResponse
  \/ StatusResponse
  \/ ChunkResponse
  \/ FinalizeResponse
  \/ NetFails
  \/ ServesInit
  \/ ServesChunk
  \/ WriteLands
  \/ ChunkReturns
  \/ ServesFinalize
  \/ ReadReturns
  \/ RmReturns
  \/ SessionDeleted
  \/ BookCreated
  \/ ServesStatus

SpecReuse == InitReuse /\ [][NextReuse]_vars

\* ---------------------------------------------------------------- claims
\* the concatenations b0 \o b1 \o ... of one staged byte string per chunk number k..n-1
RECURSIVE Concatenations(_, _, _)
Concatenations(history, k, n) ==
  IF k >= n THEN {<< >>}
  ELSE IF k \notin DOMAIN history THEN {}
  ELSE {b \o rest : b \in history[k], rest \in Concatenations(history, k + 1, n)}

\* the finalize requests whose finalizeUpload has merged every chunk
Merged == {r \in InFlight : r.kind = "finalize" /\ r.pc \in {"rm", "rmdone", "book"}}

\* C2: when finalizeUpload succeeds, the output artifact is the concatenation of the staged
\* bytes of chunk 0, 1, ..., totalChunks-1 in ascending order, whatever the order and the
\* number of arrivals; when the chunks are those of the planned file, it is the file.
ArtifactIsConcatenation ==
  \A r \in Merged :
    /\ outputs[r.out].state = "complete"
    /\ outputs[r.out].content \in Concatenations(stagedHistory[r.id], 0, r.total)
    /\ r.total = ctorTotalChunks(cfg.fileSize, cfg.chunkSize) =>
         /\ outputs[r.out].content = fileSlice(cfg.fileSize, 0, cfg.fileSize)
         /\ Len(outputs[r.out].content) = cfg.fileSize

\* the example file of three chunks is merged while a duplicate of a chunk is still in flight
ArtifactIsConcatenationWitness ==
  \E r \in Merged :
    /\ r.total = 3
    /\ Len(outputs[r.out].content) = ExampleFileSize
    /\ \E q \in InFlight : q.kind = "chunk" /\ q.id = r.id

\* some index of 0..totalChunks-1 is not in the received set
Lacks(id) == \E i \in 0..(sessions[id].totalChunks - 1) : i \notin sessions[id].uploadedChunks

\* C4: finalizeUpload on a session that lacks an index fails with 'Missing chunks' naming at
\* least one absent index, creates no output and leaves the session, its received set and
\* its staged chunks unchanged.
FinalizeRefusesIncomplete ==
  [][\A id \in DOMAIN sessions :
       (Lacks(id) /\ FinalizeCall(NoFetch, id)) =>
          /\ finalizeCheck(id).msg.text = "Missing chunks"
          /\ Len(finalizeCheck(id).msg.arg) >= 1
          /\ \A j \in 1..Len(finalizeCheck(id).msg.arg) :
               /\ finalizeCheck(id).msg.arg[j] \in 0..(sessions[id].totalChunks - 1)
               /\ finalizeCheck(id).msg.arg[j] \notin sessions[id].uploadedChunks
          /\ UNCHANGED <<sessions, tempDirs, outputs>>]_vars

\* C5: a saveChunk of bytes that are already staged under that chunk number, for an index
\* that is already received, leaves every staged file and the received set as they were.
SaveChunkIdempotent ==
  [][\A r \in InFlight :
       /\ (/\ ChunkWrite(r)
           /\ r.id \in DOMAIN tempDirs
           /\ r.idx \in DOMAIN tempDirs[r.id]
           /\ tempDirs[r.id][r.idx] = r.data) => tempDirs' = tempDirs
       /\ (/\ ChunkDone(r)
           /\ r.id \in DOMAIN sessions
           /\ r.idx \in sessions[r.id].uploadedChunks) =>
            sessions'[r.id].uploadedChunks = sessions[r.id].uploadedChunks]_vars

\* the second delivery of a received chunk has written its bytes
SaveChunkIdempotentWitness ==
  \E r \in InFlight :
    /\ r.kind = "chunk" /\ r.pc = "written"
    /\ r.id \in DOMAIN sessions /\ r.id \in DOMAIN tempDirs
    /\ r.idx \in sessions[r.id].uploadedChunks
    /\ tempDirs[r.id][r.idx] = plannedBody(r.idx)

\* C8: no lost update: in every session of the store, every chunk number whose write has
\* landed is in the received set, or the saveChunk that wrote it has not returned yet.
NoLostUpdate ==
  \A id \in DOMAIN sessions :
    id \in DOMAIN tempDirs =>
      \A k \in DOMAIN tempDirs[id] :
        \/ k \in sessions[id].uploadedChunks
        \/ \E r \in InFlight : r.kind = "chunk" /\ r.pc = "written" /\ r.id = id /\ r.idx = k

\* three saveChunk requests of distinct indices are in flight at once: two have written
\* and not returned yet, the third has just returned
NoLostUpdateWitness ==
  \E id \in DOMAIN sessions :
    /\ Cardinality(sessions[id].uploadedChunks) = 1
    /\ Cardinality({r.idx : r \in {q \in InFlight : q.kind = "chunk" /\ q.pc = "written" /\ q.id = id}}
                     \ sessions[id].uploadedChunks) = MaxReqs - 1

\* the sweep that is leaving its await of cleanupSession in this step
SweepLeaves(r) == r \in InFlight /\ r.kind = "sweep" /\ r.pc = "rmdone" /\ r \notin BagToSet(reqs')
\* the sweep that turns to a session in this step
SweepTurnsTo(q) == q \in BagToSet(reqs') /\ q.kind = "sweep" /\ q.pc = "rm" /\ q \notin InFlight
OlderThanWindow(session, t0) == t0 - session.lastActivity > 24 * ONE_HOUR

\* C9 (reaper sweep): a run of cleanupStaleUploads turns only to sessions whose lastActivity
\* is older than 24 hours at the time of the sweep and passes over none of them; a session
\* it has dealt with is gone from the store and so is its staging directory; when the
\* sweep ends no session older than the window is left; and the sweep changes nothing
\* else: no other session, no other directory, no artifact and no book.
ReaperSweep ==
  [][/\ \A q \in BagToSet(reqs') :
          SweepTurnsTo(q) =>
            /\ q.id \in DOMAIN sessions'
            /\ OlderThanWindow(sessions'[q.id], q.t0)
            /\ \A id \in DOMAIN sessions' :
                 (id < q.id /\ \A r \in InFlight : SweepLeaves(r) => id > r.id)
                   => ~OlderThanWindow(sessions'[id], q.t0)
     /\ \A r \in InFlight :
          SweepLeaves(r) =>
            /\ r.id \notin DOMAIN sessions'
            /\ r.id \notin DOMAIN tempDirs'
            /\ \A id \in DOMAIN sessions : id # r.id =>
                 id \in DOMAIN sessions' /\ sessions'[id] = sessions[id]
            /\ \A id \in DOMAIN tempDirs : id # r.id =>
                 id \in DOMAIN tempDirs' /\ tempDirs'[id] = tempDirs[id]
            /\ outputs' = outputs /\ books' = books
            /\ (\A q \in BagToSet(reqs') : q.kind # "sweep") =>
                 \A id \in DOMAIN sessions' : id > r.id => ~OlderThanWindow(sessions'[id], r.t0)
    ]_vars

\* the status requests answered 200 in this step
StatusNow ==
  {f \in DOMAIN fetches :
     /\ fetches[f].kind = "status" /\ fetches[f].stage = "request"
     /\ f \in DOMAIN fetches' /\ fetches'[f].stage = "response"
     /\ ok(fetches'[f].response)}

\* C3 (resume): the status of a session reports exactly the indices the session has
\* received; and when a resume() that was told a set of received indices has sent the
\* others and finalize has answered, the artifact of its book is the file, byte for byte,
\* as is the artifact of an upload() that resolves.
ResumeCorrect ==
  /\ [][\A f \in StatusNow :
          /\ fetches[f].args.uploadId \in DOMAIN sessions
          /\ fetches'[f].response.body[1] = sessions[fetches[f].args.uploadId].uploadedChunks
          /\ fetches'[f].response.body[1] \subseteq 0..(totalChunks - 1)
       ]_vars
  /\ [](run.pc = "resolved" =>
          /\ run.book[1] \in DOMAIN outputs
          /\ outputs[run.book[1]].state = "complete"
          /\ outputs[run.book[1]].content = fileSlice(cfg.fileSize, 0, cfg.fileSize)
          /\ run.kind = "resume" =>
               {run.queue[j].index : j \in DOMAIN run.queue} = (0..(totalChunks - 1)) \ run.received)

\* a resume() that was told a strict, non-empty subset of the indices has resolved
ResumeCorrectWitness ==
  /\ run.kind = "resume" /\ run.pc = "resolved"
  /\ run.received # {}
  /\ run.received # 0..(totalChunks - 1)
  /\ run.queue # << >>

\* the chunk requests sent in this step
SentNow == {f \in DOMAIN fetches' \ DOMAIN fetches : f[2] >= 0}
sendsBefore(k) == IF k \in DOMAIN tasks THEN tasks[k].sends ELSE 0

\* C6 (retry cap): within one run of uploadAllChunks a chunk is sent at most maxRetries + 1
\* times, every request counted; a chunk whose maxRetries + 1 requests have all failed has
\* failed for good; and for a chunk that has succeeded or failed for good no request is
\* sent any more.
RetryCap ==
  /\ [](\A k \in DOMAIN tasks :
          /\ tasks[k].sends <= cfg.maxRetries + 1
          /\ (tasks[k].sends = cfg.maxRetries + 1 /\ tasks[k].pc \notin {"fetch", "done"})
               => tasks[k].pc = "failed")
  /\ [][/\ \A f \in SentNow :
             /\ <<f[1], f[2]>> \in DOMAIN tasks'
             /\ tasks'[<<f[1], f[2]>>].sends = sendsBefore(<<f[1], f[2]>>) + 1
        /\ \A k \in DOMAIN tasks :
             tasks[k].pc \in {"done", "failed"} =>
               /\ \A f \in SentNow : <<f[1], f[2]>> # k
               /\ k \in DOMAIN tasks' => tasks'[k].pc = tasks[k].pc
       ]_vars

\* a chunk has failed for good after maxRetries + 1 requests while another succeeded with
\* its last request
RetryCapWitness ==
  \E k, j \in DOMAIN tasks :
    /\ k[1] = j[1]
    /\ tasks[k].pc = "failed" /\ tasks[k].sends = cfg.maxRetries + 1
    /\ tasks[j].pc = "done" /\ tasks[j].sends = cfg.maxRetries + 1

\* the message names the chunk
NamesChunk(msg, index) == Len(msg.arg) >= 1 /\ msg.arg[1] = index

\* C7 (terminal failure): when upload() or resume() rejects because a chunk has used up
\* its retries, the error has the message of the last error of that chunk and names the
\* index of the chunk, whatever the last error was.
TerminalFailureNamesChunk ==
  (run.pc = "rejected" /\ run.failedChunk >= 0) =>
    /\ run.error.text = tasks[<<run.n, run.failedChunk>>].lastError.text
    /\ NamesChunk(run.error, run.failedChunk)

\* C10 (cancel): cancel() rejects every fetch it can reach, and once it has been called on
\* a run with chunk requests in flight no chunk request of that run is sent any more.
CancelStopsChunks ==
  [][/\ (abortController # 0 /\ abortController' = 0) =>
          \A f \in DOMAIN fetches :
            fetches[f].signal = abortController =>
              f \notin DOMAIN fetches' \/ ~fetches'[f].waiting
     /\ (run.cancelled /\ run'.n = run.n) => \A f \in SentNow : f[1] # run.n
    ]_vars

\* C1: for every file size S >= 0 and chunk size C > 0 the plan has ceil(S/C)
\* descriptors with dense indices 0..n-1, descriptor i covers
\* [i*C, min((i+1)*C, S)), size = end - start > 0, consecutive descriptors touch,
\* the plan covers exactly [0, S), and the last size is S - (n-1)*C.
PlanTilesFile ==
  planOut[1] = "plan" =>
    LET chunks == planOut[2]
        n == Len(chunks)
        S == planSize
        C == planChunk
    IN /\ IF S = 0 THEN n = 0 ELSE (n * C >= S /\ (n - 1) * C < S)
       /\ \A i \in 1..n :
            /\ chunks[i].index = i - 1
            /\ chunks[i].start = (i - 1) * C
            /\ chunks[i].end = Min(i * C, S)
            /\ chunks[i].size = chunks[i].end - chunks[i].start
            /\ chunks[i].size > 0
            /\ i < n => chunks[i].end = chunks[i + 1].start
       /\ n > 0 => /\ chunks[1].start = 0
                   /\ chunks[n].end = S
                   /\ chunks[n].size = S - (n - 1) * C
       /\ n = 0 => S = 0

\* a plan of at least three chunks whose last chunk is shorter than the others
PlanTilesFileWitness ==
  /\ planOut[1] = "plan"
  /\ Len(planOut[2]) >= 3
  /\ planOut[2][Len(planOut[2])].size < planChunk
  /\ planOut[2][1].size = planChunk

\* the finalize requests that are sent in this step
FinalizeSentNow == {f \in DOMAIN fetches' \ DOMAIN fetches : f[2] = FinalizeFetch}

\* cancel() has been called while the run was initializing, transmitting or finalizing and
\* the run has not ended with it: the signal of an upload() is made before init, so it is
\* aborted in one of the three phases; that of a resume() is made before the status
\* request, so there the cancel counts when it hit the chunk requests of the run
CancelledRun ==
  /\ run.pc \in {"init", "chunks", "finalize"}
  /\ \/ run.cancelled
     \/ run.kind = "upload" /\ run.n \in DOMAIN controllers /\ controllers[run.n]

\* C11 (cancel is terminal): once cancel() has been called on a run that is initializing,
\* transmitting or finalizing, the promise of the run never resolves with a Book and no
\* finalize request is sent; a cancel() with no AbortController left changes nothing.
CancelIsTerminal ==
  [][/\ CancelledRun => /\ ~(run'.n = run.n /\ run'.pc = "resolved")
                        /\ \A f \in FinalizeSentNow : f[1] # run.n
     /\ (abortController = 0 /\ abortController' = 0) => UNCHANGED controllers
    ]_vars

\* the session the finalize request f is for has every index of the plan in its received
\* set, which is where the server keeps what it has acknowledged
AllAcknowledged(f) ==
  LET id == fetches'[f].args.uploadId
  IN /\ id \in DOMAIN sessions
     /\ \A x \in 0..(totalChunks - 1) : x \in sessions[id].uploadedChunks

\* C12 (no partial finalize): whenever the uploader sends a finalize request, over any
\* upload() and resume() calls made one after another, the server has acknowledged every
\* index 0..totalChunks-1 for the session of the request; and a run in which a chunk has
\* failed for good is rejected and sends no finalize request.
FinalizeOnlyWhenAllAcked ==
  /\ [](\A k \in DOMAIN tasks :
          (k[1] = run.n /\ tasks[k].pc = "failed") => run.pc = "rejected")
  /\ [][\A f \in FinalizeSentNow :
          /\ AllAcknowledged(f)
          /\ \A k \in DOMAIN tasks : k[1] = f[1] => tasks[k].pc # "failed"
       ]_vars

\* C13 (one terminal outcome): when every request is answered or fails in the end, every
\* upload() or resume() call ends; one that resolves has the created Book and has not
\* called onError, and one that rejects has an Error and has called onError exactly once.
OneTerminalOutcome ==
  /\ ~RunOver ~> RunOver
  /\ [](run.pc = "resolved" => (run.book # << >> /\ run.onError = 0))
  /\ [](run.pc = "rejected" => (run.error.text # "" /\ run.onError = 1))

\* the chunk number is an index of the session: an integer of [0, totalChunks)
InRange(chunkIndex, session) == chunkIndex \in 0..(session.totalChunks - 1)

\* C14 (saveChunk): a chunk request with all its fields is refused with 'Upload session
\* not found' for an unknown uploadId and with 'Invalid chunk index' for a chunk number
\* outside [0, totalChunks), and a refused request stages nothing and leaves the sessions
\* as they are; for a known session and a number in range the bytes are staged and, when
\* the request returns, the number is in the received set and lastActivity is the present.
SaveChunkOutcome ==
  /\ [](\A id \in UploadIds \ {0}, field \in lim.fields :
          LET check == saveChunkCheck(id, parseInt(field), TRUE)
          IN /\ id \notin DOMAIN sessions => check.msg.text = "Upload session not found"
             /\ (id \in DOMAIN sessions /\ ~InRange(parseInt(field), sessions[id]))
                  => check.msg.text = "Invalid chunk index"
             /\ (id \in DOMAIN sessions /\ InRange(parseInt(field), sessions[id]))
                  => check = Proceed)
  /\ [][/\ \A id \in UploadIds \ {0}, field \in lim.fields :
             (/\ saveChunkCheck(id, parseInt(field), TRUE) # Proceed
              /\ \E chunkData \in ChunkBodies(field) : ChunkCall(NoFetch, id, field, TRUE, chunkData))
               => UNCHANGED <<sessions, tempDirs, reqs>>
        /\ \A r \in InFlight :
             (ChunkWrite(r) /\ r.id \in DOMAIN tempDirs) => tempDirs'[r.id][r.idx] = r.data
        /\ \A r \in InFlight :
             (ChunkDone(r) /\ r.id \in DOMAIN sessions)
               => /\ r.idx \in sessions'[r.id].uploadedChunks
                  /\ sessions'[r.id].lastActivity = now
       ]_vars

\* C15 (received set in range): in every state of the server, whatever chunkIndex fields
\* the chunk endpoint has passed through parseInt, the received set of every session
\* holds only integers of [0, totalChunks).
ReceivedInRange ==
  \A id \in DOMAIN sessions :
    \A chunkIndex \in sessions[id].uploadedChunks : InRange(chunkIndex, sessions[id])

\* the artifacts of the finalizeUpload calls that have succeeded for the session: the
\* output is complete and the call has come back from cleanupSession
Succeeded(id) ==
  {o \in DOMAIN outputs :
     /\ outputs[o].id = id
     /\ outputs[o].state = "complete"
     /\ \A r \in InFlight : (r.kind = "finalize" /\ r.out = o) => r.pc = "book"}

\* C16 (finalize is one-shot): for every session at most one finalizeUpload call succeeds,
\* so that at most one artifact and at most one book come from it, also when finalize
\* requests for the session, or a finalize and a cancel, are in flight together.
FinalizeOneShot ==
  \A id \in 1..(nextId - 1) :
    /\ Cardinality(Succeeded(id)) <= 1
    /\ Cardinality({b \in books : outputs[b.path].id = id}) <= 1

\* the sessions that were created and have been destroyed: by a finalize that succeeded,
\* by cancel or by the reaper
Destroyed == {id \in 1..(nextId - 1) : id \notin DOMAIN sessions}

FinalizeEnds(r) ==
  /\ r.kind = "finalize"
  /\ MergeRead(r) \/ \E extracted \in BOOLEAN : FinalizeBook(r, extracted)
  /\ reqs' = Retire(r)

\* C18 (finalize is all or nothing): when a finalize request ends, either it has succeeded,
\* its artifact is complete and the session and its staging directory are gone, or it has
\* failed, no file of its output is left on disk, and the session and its staged chunks
\* are still there.
FinalizeAllOrNothing ==
  [][\A r \in InFlight :
       FinalizeEnds(r) =>
         IF books' # books
         THEN /\ outputs'[r.out].state = "complete"
              /\ r.id \notin DOMAIN sessions' /\ r.id \notin DOMAIN tempDirs'
         ELSE /\ outputs'[r.out].state = "deleted"
              /\ r.id \in DOMAIN sessions' /\ r.id \in DOMAIN tempDirs'
    ]_vars

\* the finalize request r is between its session lookup and the end of its cleanup, and
\* the session is not in the store any more: cancel or the reaper has deleted it
RemovedUnderFinalize(r) ==
  /\ r.kind = "finalize"
  /\ r.pc \in {"read", "rm", "rmdone"}
  /\ r.id \notin DOMAIN sessions

\* the finalize request r takes a step
FinalizeSteps(r) ==
  \/ MergeRead(r)
  \/ \E removed \in BOOLEAN : CleanupRm(r, removed)
  \/ CleanupDone(r)

\* C19 (session removed under a finalize): a finalize whose session cancel or the reaper
\* has removed does not go on to report success, and when it ends no file of its output is
\* left and no book is made.
RemovedFinalizeFails ==
  [][\A r \in InFlight :
       (RemovedUnderFinalize(r) /\ FinalizeSteps(r)) =>
         /\ \A q \in BagToSet(reqs') : (q.kind = "finalize" /\ q.out = r.out) => q.pc # "book"
         /\ reqs' = Retire(r) => outputs'[r.out].state = "deleted"
         /\ books' = books
    ]_vars

\* the response has a JSON body {message} and a 4xx status
ClientError(response) ==
  /\ response.status \in 400..499
  /\ response.msg.text # ""

\* C20 (error responses): whenever an upload endpoint refuses a request for what the
\* client sent (missing fields, an unknown session, a chunk number out of range, missing
\* chunks at finalize), the response has a body {message} and a 4xx status.
ClientFailuresAre4xx ==
  /\ \A fileName \in lim.names \cup {<< >>}, fileSize \in {0, cfg.fileSize}, total \in 0..lim.chunks :
       (fileName = << >> \/ fileSize = 0 \/ total = 0)
         => ClientError(initializeCheck(fileName, fileSize, total))
  /\ \A id \in UploadIds, field \in lim.fields, hasChunk \in BOOLEAN :
       saveChunkCheck(id, parseInt(field), hasChunk) # Proceed
         => ClientError(saveChunkCheck(id, parseInt(field), hasChunk))
  /\ \A id \in UploadIds :
       finalizeCheck(id) # Proceed => ClientError(finalizeCheck(id))

\* the messages with which the chunk endpoint refuses a request for what it carries
ValidationMessages ==
  {"Missing required fields: uploadId, chunkIndex, chunk", "Upload session not found",
   "Invalid chunk index"}

\* C21 (validation errors are not retried): a call of uploadChunkWithRetry whose request
\* the server has refused with a validation message has failed at once with that message,
\* and no request of that chunk is sent any more.
ValidationNotRetried ==
  /\ [](\A k \in DOMAIN tasks :
          tasks[k].lastError.text \in ValidationMessages =>
            /\ tasks[k].pc = "failed"
            /\ tasks[k].error.text = tasks[k].lastError.text)
  /\ [][\A k \in DOMAIN tasks :
          tasks[k].lastError.text \in ValidationMessages =>
            \A f \in SentNow : <<f[1], f[2]>> # k
       ]_vars

\* the server has answered the request of fetch f
ServerAnswered(f) == fetches[f].stage = "response" /\ fetches[f].response.status > 0

\* C22 (empty file): for a file of size 0 the plan is empty, the first upload() sends no
\* chunk, and the server accepts its init and its finalize request, so that it ends
\* completed unless a request is lost.
EmptyFileUploads ==
  (cfg.fileSize = 0 /\ run.n = 1 /\ run.kind = "upload") =>
    /\ plan = << >> /\ totalChunks = 0
    /\ \A f \in DOMAIN fetches :
         /\ f[2] < 0
         /\ ServerAnswered(f) => ok(fetches[f].response)
    /\ run.pc = "rejected" => run.error.text = NetworkError.msg.text

\* C23 (duplicate titles): in every state of the server no two books of the repository
\* have the same title, whatever sessions were initialized and finalized in whatever order.
NoDuplicateTitles ==
  \A a, b \in books : a.title = b.title => a = b

\* the chunk requests of the run that the uploader awaits
InFlightOf(n) == {f \in DOMAIN fetches : f[1] = n /\ f[2] >= 0 /\ fetches[f].waiting}

\* the window of the chunk with this index in a queue of chunks: windows are numbered from
\* 0 and hold maxParallel consecutive chunks of the queue
windowOf(queue, index) ==
  ((CHOOSE j \in DOMAIN queue : queue[j].index = index) - 1) \div cfg.maxParallel

\* C24 (bounded concurrency): at most maxParallel chunk requests of the run are in flight,
\* the chunks to send are queued in index order and those in flight are of one window, and
\* a chunk request of the run is sent only when every chunk of the windows before its own
\* has been acknowledged.
BoundedConcurrency ==
  /\ [](/\ Cardinality(InFlightOf(run.n)) <= cfg.maxParallel
        /\ \A i, j \in DOMAIN run.queue : i < j => run.queue[i].index < run.queue[j].index
        /\ \A f, g \in InFlightOf(run.n) : windowOf(run.queue, f[2]) = windowOf(run.queue, g[2]))
  /\ [][\A f \in SentNow :
          f[1] = run'.n =>
            \A j \in DOMAIN run'.queue :
              windowOf(run'.queue, run'.queue[j].index) < windowOf(run'.queue, f[2])
                => tasks'[<<f[1], run'.queue[j].index>>].pc = "done"
       ]_vars

\* a full window is in flight; and a chunk of the second window is in flight in its retry
\* after the first window was acknowledged, one of its chunks at the second request
BoundedConcurrencyWitness ==
  /\ run.pc = "chunks" /\ run.i > 1
  /\ \E f \in InFlightOf(run.n) : f[3] >= 1 /\ windowOf(run.queue, f[2]) = 1
  /\ \E k \in DOMAIN tasks : k[1] = run.n /\ tasks[k].pc = "done" /\ tasks[k].sends = 2

\* the delays of the schedule, in ms, after the 1st, 2nd, ... failed attempt
Schedule == <<1000, 2000, 4000, 8000, 10000, 10000, 10000>>

\* C25 (backoff): after the k-th failed attempt of a chunk, 1 <= k <= maxRetries, the
\* transmitter sleeps Schedule[k] = min(1000 * 2^(k-1), 10000) ms; the delay never goes
\* down and never exceeds 10000 ms; after the failed attempt number maxRetries + 1 the call
\* fails without a further sleep.
BackoffSchedule ==
  /\ [](\A k \in DOMAIN tasks :
          LET failures == tasks[k].chunk.retries
          IN /\ tasks[k].delay <= 10000
             /\ tasks[k].pc = "sleep" =>
                  /\ failures >= 1 /\ failures <= cfg.maxRetries
                  /\ tasks[k].delay = Schedule[failures]
             /\ failures = cfg.maxRetries + 1 =>
                  /\ tasks[k].pc = "failed"
                  /\ tasks[k].delay = IF cfg.maxRetries = 0 THEN 0 ELSE Schedule[cfg.maxRetries])
  /\ [][\A k \in DOMAIN tasks \cap DOMAIN tasks' : tasks'[k].delay >= tasks[k].delay]_vars

\* a chunk sleeps the capped delay for the second time: after its sixth failed attempt
BackoffScheduleWitness ==
  \E k \in DOMAIN tasks :
    tasks[k].pc = "sleep" /\ tasks[k].chunk.retries = 6 /\ tasks[k].delay = 10000

\* the indices of the chunks the run has queued for sending
Queued == {run.queue[j].index : j \in DOMAIN run.queue}

\* C26 (resume sends the rest): a resume() whose status request was answered queues
\* exactly the indices of the plan that the status did not report, so that no reported
\* index is sent and every other index is; and no chunk request of a resume() is sent
\* while its status request is unanswered.
ResumeSendsRemaining ==
  /\ [](run.kind = "resume" =>
          /\ run.pc = "status" => InFlightOf(run.n) = {}
          /\ run.pc \in {"chunks", "finalize", "resolved"} =>
               Queued = (0..(totalChunks - 1)) \ run.received
          /\ run.pc \in {"finalize", "resolved"} =>
               \A x \in (0..(totalChunks - 1)) \ run.received : <<run.n, x>> \in DOMAIN tasks)
  /\ [][\A f \in SentNow :
          (f[1] = run'.n /\ run'.kind = "resume") =>
            /\ run'.pc # "status"
            /\ f[2] \notin run'.received
       ]_vars

\* C27 (byte accounting): at every point of the upload() and resume() calls on the
\* uploader, uploadedBytes is the sum of the planned sizes of the indices in
\* uploadedChunks, so that it lies in [0, file size], the percentage reported is at most
\* 100, and currentChunk, the size of uploadedChunks, is at most totalChunks.
ByteAccounting ==
  /\ uploadedBytes = sumChunkSizes(uploadedChunks)
  /\ uploadedBytes >= 0 /\ uploadedBytes <= cfg.fileSize
  /\ uploadedBytes * 100 <= 100 * cfg.fileSize
  /\ Cardinality(uploadedChunks) <= totalChunks

\* C28 (no orphaned staging data): in every state of the server every staging directory
\* on disk is that of a session in the store.
NoOrphanStaging ==
  \A id \in DOMAIN tempDirs : id \in DOMAIN sessions

\* handleCancel runs in this step
CancelClicked == dialog.status = "uploading" /\ dialog'.status = "cancelled"

\* C29 (dialog cancel): when the user cancels in the dialog while the upload the dialog
\* started is running, cancel() is called on the uploader of that upload, so that once
\* the dialog shows 'cancelled' the upload sends no chunk any more and does not complete;
\* and the dialog starts at most one upload per mount.
DialogCancelStops ==
  /\ [][(CancelClicked /\ ~RunOver) => controllers'[run.n]]_vars
  /\ [][dialog.cancelled => /\ SentNow = {}
                            /\ ~(run.pc # "resolved" /\ run'.pc = "resolved")]_vars
  /\ [](dialog.calls <= 1)

\* the run has rejected because a chunk of it failed for good, and no cancel() was called
FailedTerminally ==
  /\ run.pc = "rejected"
  /\ run.failedChunk >= 0
  /\ \A c \in DOMAIN controllers : ~controllers[c]

\* C30 (stop on terminal failure): after upload() or resume() has rejected because a chunk
\* of a window failed for good, no further chunk request of that run is sent: none of a
\* later window, and none of the other chunks of the failing window.
StopsOnTerminalFailure ==
  [][FailedTerminally => \A f \in SentNow : f[1] # run.n]_vars

====
